---- MODULE Spec2Model ----
(***************************************************************************)
(* VectorDBService (src/vector_db_service.py): a FAISS flat L2 index and a *)
(* parallel Python list of documents, persisted as two files               *)
(* (faiss.index, data.pkl).                                                *)
(*                                                                         *)
(* Every public method is one action.  The points at which a method can    *)
(* fail (the embedding call, the index append, the list append, the two    *)
(* file writes) are inputs of the action, drawn with \E.                   *)
(***************************************************************************)
EXTENDS Integers, Sequences, FiniteSets, TLC

\* ------------------------------------------------------------------ bounds

\* self.dimension, scaled down from 384 to keep vectors small.
dimension == 2

\* Number of add_document calls a behaviour makes after construction.
MaxAdds == 1

\* ------------------------------------------------------- starter knowledge

medical_knowledge ==
  << [text |-> 1,  category |-> "fever",            urgency |-> "HIGH"],
     [text |-> 2,  category |-> "cardiac",          urgency |-> "CRITICAL"],
     [text |-> 3,  category |-> "neurological",     urgency |-> "CRITICAL"],
     [text |-> 4,  category |-> "respiratory",      urgency |-> "HIGH"],
     [text |-> 5,  category |-> "gastrointestinal", urgency |-> "HIGH"],
     [text |-> 6,  category |-> "respiratory",      urgency |-> "LOW"],
     [text |-> 7,  category |-> "pain",             urgency |-> "MINIMAL"],
     [text |-> 8,  category |-> "allergic",         urgency |-> "CRITICAL"],
     [text |-> 9,  category |-> "general",          urgency |-> "MODERATE"],
     [text |-> 10, category |-> "gastrointestinal", urgency |-> "MODERATE"] >>

\* ------------------------------------------------------------------ inputs

\* Python's None and the empty dict.
None == [none |-> TRUE]

EmptyDict == [zz \in {} |-> 0]

\* Texts are numbered; the starter texts are 1..Len(medical_knowledge).
\* Callers add a new text with metadata, and add again a text the corpus
\* already holds (starter text 2) without metadata.
NewText == Len(medical_knowledge) + 1

AddCalls ==
  { [text |-> NewText, metadata |-> [category |-> "trauma"]],
    [text |-> 2, metadata |-> None] }

QueryTexts == {NewText, 2}

\* k of search: negative, zero, the default 3, larger than any corpus.
KArgs == {-1, 0, 3, 20}

\* k of get_relevant_knowledge: zero and the default 3.
KnowledgeKArgs == {0, 3}

AddFaults == {"none", "embed", "index", "store"}

\* The embedding of the query fails before k is looked at: that failure is
\* tried with the default k only.
SearchFaults(k) == IF k = 3 THEN {"none", "embed"} ELSE {"none"}

\* The starter documents at which a seeding add is made to fail.
SeedFailPoints == {1, Len(medical_knowledge)}

\* Whether the index asserts k > 0: every build rejects a negative k; for
\* k = 0 some builds raise and some return no neighbours.
AssertsK(k) == IF k = 0 THEN BOOLEAN ELSE {TRUE}

SaveFaults == {"none", "index_open", "index_write", "data_open", "data_dump"}

\* ------------------------------------------------------- embedding provider

\* self.model.encode([text])[0]: a deterministic vector of `dimension`
\* components per text (base-3 digits of the text number: distinct texts may
\* share an embedding, and several texts are equidistant from a query).
encode(text) == [i \in 1 .. dimension |-> (text \div (3 ^ (i - 1))) % 3]

\* ------------------------------------------------------------ faiss index

\* faiss.IndexFlatL2(d): d and the stored vectors xb; ntotal = Len(xb).
IndexFlatL2(d) == [d |-> d, xb |-> <<>>]

ntotal(ix) == Len(ix.xb)

\* index.add(np.array([embedding])): appends the vector.
IndexAdd(ix, v) == [ix EXCEPT !.xb = Append(ix.xb, v)]

Min(a, b) == IF a <= b THEN a ELSE b

RECURSIVE SumSq(_, _, _)
SumSq(x, y, i) ==
  IF i = 0 THEN 0 ELSE (x[i] - y[i]) * (x[i] - y[i]) + SumSq(x, y, i - 1)

\* Squared Euclidean distance, what IndexFlatL2 reports.
L2sqr(x, y) == SumSq(x, y, Len(x))

\* The distance of every stored vector from the query, by position.
Distances(ix, q) == [i \in 0 .. (ntotal(ix) - 1) |-> L2sqr(q, ix.xb[i + 1])]

\* How many positions come before each position: by distance, and among
\* equal distances in the order of the build (ties): lowest position first,
\* or highest first.
Ranks(dis, ties) ==
  [i \in DOMAIN dis |->
     Cardinality({j \in DOMAIN dis :
                    \/ dis[j] < dis[i]
                    \/ dis[j] = dis[i]
                       /\ (IF ties = "first" THEN j < i ELSE j > i)})]

NearestFirst(dis, rank, k) ==
  [r \in 1 .. k |->
     LET i == CHOOSE i \in DOMAIN rank : rank[i] = r - 1
     IN  [idx |-> i, dist |-> dis[i]]]

Nearest(dis, k, ties) == NearestFirst(dis, Ranks(dis, ties), k)

\* index.search(q, k) for 0 <= k <= ntotal: the k nearest positions
\* (zero-based) with their distances, nearest first.  A flat index scans
\* every stored vector.
IndexSearch(ix, q, k, ties) == Nearest(Distances(ix, q), k, ties)

\* ------------------------------------------------------------- artifacts

\* faiss.index on disk: absent, unreadable, or header (d, ntotal) + codes.
NoIndexFile == [kind |-> "absent", d |-> 0, ntotal |-> 0, codes |-> <<>>]

BadIndexFile == [kind |-> "corrupt", d |-> 0, ntotal |-> 0, codes |-> <<>>]

\* faiss.write_index: the vectors flattened into one array of d*ntotal codes.
write_index(ix) ==
  [kind |-> "ok", d |-> ix.d, ntotal |-> ntotal(ix),
   codes |-> [p \in 1 .. (ntotal(ix) * ix.d) |->
                ix.xb[((p - 1) \div ix.d) + 1][((p - 1) % ix.d) + 1]]]

\* A bug read_index could have: the codes read column by column.
read_index_transposed(f) ==
  [d |-> f.d,
   xb |-> [i \in 1 .. f.ntotal |->
             [j \in 1 .. f.d |-> f.codes[(j - 1) * f.ntotal + i]]]]

\* faiss.read_index: the codes cut back into ntotal vectors of d components.
read_index(f) ==
  [d |-> f.d,
   xb |-> [i \in 1 .. f.ntotal |->
             [j \in 1 .. f.d |-> f.codes[(i - 1) * f.d + j]]]]

\* data.pkl on disk: absent, unreadable, or the pickled list.
NoDataFile == [kind |-> "absent", n |-> 0, texts |-> <<>>, metas |-> <<>>]

BadDataFile == [kind |-> "corrupt", n |-> 0, texts |-> <<>>, metas |-> <<>>]

\* pickle.dump(self.documents, f): the list's length, then its fields.
pickle_dump(docs) ==
  [kind |-> "ok", n |-> Len(docs),
   texts |-> [i \in 1 .. Len(docs) |-> docs[i].text],
   metas |-> [i \in 1 .. Len(docs) |-> docs[i].metadata]]

\* A bug the reading of data.pkl could have: the list comes back reversed.
pickle_load_reversed(f) ==
  [i \in 1 .. f.n |->
     [text |-> f.texts[f.n + 1 - i], metadata |-> f.metas[f.n + 1 - i]]]

\* pickle.load(f): the list of {"text", "metadata"} dicts, in order.
pickle_load(f) ==
  [i \in 1 .. f.n |-> [text |-> f.texts[i], metadata |-> f.metas[i]]]

\* ---------------------------------------------------------------- methods

\* `metadata or {}`: None and the empty dict are both stored as {}.
OrEmpty(metadata) ==
  IF metadata = None \/ metadata = EmptyDict THEN EmptyDict ELSE metadata

\* A bug add_document could have: the new document put at the front.
DocumentsAppendFront(docs, text, metadata) ==
  <<[text |-> text, metadata |-> OrEmpty(metadata)]>> \o docs

\* self.documents.append({"text": text, "metadata": metadata or {}}).
DocumentsAppend(docs, text, metadata) ==
  Append(docs, [text |-> text, metadata |-> OrEmpty(metadata)])

\* A bug add_document could have: a failed embedding caught and replaced by
\* a zero vector, so the call goes on and returns normally.
add_document_zero_embedding(ix, docs, text, metadata, fault) ==
  LET embedding == IF fault = "embed" THEN [i \in 1 .. dimension |-> 0]
                   ELSE encode(text)
  IN  IF fault = "index" \/ Len(embedding) # ix.d
      THEN [index |-> ix, documents |-> docs, raised |-> TRUE]
      ELSE IF fault = "store"
      THEN [index |-> IndexAdd(ix, embedding), documents |-> docs,
            raised |-> TRUE]
      ELSE [index |-> IndexAdd(ix, embedding),
            documents |-> DocumentsAppend(docs, text, metadata),
            raised |-> FALSE]

\* add_document: embed, index.add, documents.append, in that order; the
\* first step that fails raises and the later steps do not run.
add_document(ix, docs, text, metadata, fault) ==
  IF fault = "embed"
  THEN [index |-> ix, documents |-> docs, raised |-> TRUE]
  ELSE LET embedding == encode(text)
       IN  IF fault = "index" \/ Len(embedding) # ix.d
           THEN [index |-> ix, documents |-> docs, raised |-> TRUE]
           ELSE IF fault = "store"
           THEN [index |-> IndexAdd(ix, embedding), documents |-> docs,
                 raised |-> TRUE]
           ELSE [index |-> IndexAdd(ix, embedding),
                 documents |-> DocumentsAppend(docs, text, metadata),
                 raised |-> FALSE]

\* The loop of search over zip(indices[0], distances[0]): positions the
\* documents list does not hold are skipped.
Resolve(docs, hits) ==
  LET kept == SelectSeq(hits, LAMBDA h : h.idx < Len(docs))
  IN  [i \in 1 .. Len(kept) |-> <<docs[kept[i].idx + 1], kept[i].dist>>]

\* search: [] on an empty index; else embed the query and ask the index for
\* min(k, ntotal) neighbours.  The index rejects a negative k, and k = 0
\* when it asserts k > 0 (assert_k); ties is its order of equal distances.
search(ix, docs, query, k, fault, assert_k, ties) ==
  IF ntotal(ix) = 0 THEN [results |-> <<>>, raised |-> FALSE]
  ELSE IF fault = "embed" THEN [results |-> <<>>, raised |-> TRUE]
  ELSE LET query_embedding == encode(query)
           kk == Min(k, ntotal(ix))
       IN  IF Len(query_embedding) # ix.d \/ kk < 0 \/ (kk = 0 /\ assert_k)
           THEN [results |-> <<>>, raised |-> TRUE]
           ELSE [results |->
                   Resolve(docs, IndexSearch(ix, query_embedding, kk, ties)),
                 raised |-> FALSE]

\* get_relevant_knowledge: the documents of search, scores dropped.
get_relevant_knowledge(ix, docs, symptoms, k, fault, assert_k, ties) ==
  LET r == search(ix, docs, symptoms, k, fault, assert_k, ties)
  IN  [results |-> [i \in 1 .. Len(r.results) |-> r.results[i][1]],
       raised |-> r.raised]

\* A bug save could have: no try/except around the writes, so a failure to
\* open or write a file reaches the caller as an exception.
save_unguarded(ix, docs, ifile, dfile, fault) ==
  IF fault = "index_open"
  THEN [index_file |-> ifile, data_file |-> dfile, ok |-> FALSE,
        raised |-> TRUE]
  ELSE IF fault = "index_write"
  THEN [index_file |-> BadIndexFile, data_file |-> dfile, ok |-> FALSE,
        raised |-> TRUE]
  ELSE IF fault = "data_open"
  THEN [index_file |-> write_index(ix), data_file |-> dfile, ok |-> FALSE,
        raised |-> TRUE]
  ELSE IF fault = "data_dump"
  THEN [index_file |-> write_index(ix), data_file |-> BadDataFile,
        ok |-> FALSE, raised |-> TRUE]
  ELSE [index_file |-> write_index(ix), data_file |-> pickle_dump(docs),
        ok |-> TRUE, raised |-> FALSE]

\* save: write_index to faiss.index, then open data.pkl for writing and
\* pickle.dump; any exception is logged and swallowed.  A failure to open a
\* file leaves it as it was, a failure while writing leaves it truncated.
save(ix, docs, ifile, dfile, fault) ==
  IF fault = "index_open"
  THEN [index_file |-> ifile, data_file |-> dfile, ok |-> FALSE,
        raised |-> FALSE]
  ELSE IF fault = "index_write"
  THEN [index_file |-> BadIndexFile, data_file |-> dfile, ok |-> FALSE,
        raised |-> FALSE]
  ELSE IF fault = "data_open"
  THEN [index_file |-> write_index(ix), data_file |-> dfile, ok |-> FALSE,
        raised |-> FALSE]
  ELSE IF fault = "data_dump"
  THEN [index_file |-> write_index(ix), data_file |-> BadDataFile,
        ok |-> FALSE, raised |-> FALSE]
  ELSE [index_file |-> write_index(ix), data_file |-> pickle_dump(docs),
        ok |-> TRUE, raised |-> FALSE]

\* A bug load could have: the except branch resets the documents only, so
\* an index that was read before the failure stays.
load_keeps_index(ifile, dfile) ==
  IF ifile.kind = "ok" /\ dfile.kind = "ok"
  THEN [index |-> read_index(ifile), documents |-> pickle_load(dfile),
        ok |-> TRUE, raised |-> FALSE]
  ELSE [index |-> IF ifile.kind = "ok" THEN read_index(ifile)
                  ELSE IndexFlatL2(dimension),
        documents |-> <<>>, ok |-> FALSE, raised |-> FALSE]

\* A bug load could have: the except branch builds its empty index with a
\* dimensionality other than self.dimension.
load_other_dimension(ifile, dfile) ==
  IF ifile.kind = "ok" /\ dfile.kind = "ok"
  THEN [index |-> read_index(ifile), documents |-> pickle_load(dfile),
        ok |-> TRUE, raised |-> FALSE]
  ELSE [index |-> IndexFlatL2(dimension + 1), documents |-> <<>>,
        ok |-> FALSE, raised |-> FALSE]

\* load: read_index, then pickle.load; any exception resets both the index
\* and the documents to empty.
load(ifile, dfile) ==
  IF ifile.kind = "ok" /\ dfile.kind = "ok"
  THEN [index |-> read_index(ifile), documents |-> pickle_load(dfile),
        ok |-> TRUE, raised |-> FALSE]
  ELSE [index |-> IndexFlatL2(dimension), documents |-> <<>>,
        ok |-> FALSE, raised |-> FALSE]

\* The loop of _initialize_medical_knowledge: add_document(doc["text"], doc)
\* for each starter document from the i-th on; the add numbered failAt fails
\* with `fault` and its exception ends the loop.
RECURSIVE SeedFrom(_, _, _, _, _)
SeedFrom(i, ix, docs, failAt, fault) ==
  IF i > Len(medical_knowledge)
  THEN [index |-> ix, documents |-> docs, raised |-> FALSE]
  ELSE LET r == add_document(ix, docs, medical_knowledge[i].text,
                             medical_knowledge[i],
                             IF i = failAt THEN fault ELSE "none")
       IN  IF r.raised THEN r
           ELSE SeedFrom(i + 1, r.index, r.documents, failAt, fault)

\* _initialize_medical_knowledge: the adds, then save.  `started_on` is the
\* size of the corpus it was entered with.
initialize_medical_knowledge(ix, docs, ifile, dfile, failAt, fault, saveFault) ==
  LET a == SeedFrom(1, ix, docs, failAt, fault)
      s == save(a.index, a.documents, ifile, dfile, saveFault)
      started_on == [ntotal |-> ntotal(ix), documents |-> Len(docs)]
  IN  IF a.raised
      THEN [index |-> a.index, documents |-> a.documents,
            index_file |-> ifile, data_file |-> dfile, raised |-> TRUE,
            saved |-> FALSE, started_on |-> started_on]
      ELSE [index |-> a.index, documents |-> a.documents,
            index_file |-> s.index_file, data_file |-> s.data_file,
            raised |-> FALSE, saved |-> s.ok, started_on |-> started_on]

\* A bug __init__ could have: the seeding is not in the else branch, so it
\* also runs on the corpus load has just read.
init_load_then_seed(ifile, dfile, failAt, fault, saveFault) ==
  LET l == IF ifile.kind # "absent" THEN load(ifile, dfile)
           ELSE [index |-> IndexFlatL2(dimension), documents |-> <<>>,
                 ok |-> FALSE, raised |-> FALSE]
      s == initialize_medical_knowledge(l.index, l.documents, ifile, dfile,
                                        failAt, fault, saveFault)
  IN  [index |-> s.index, documents |-> s.documents,
       index_file |-> s.index_file, data_file |-> s.data_file,
       raised |-> s.raised, saved |-> s.saved,
       path |-> IF l.ok THEN "loaded" ELSE "seeded",
       seeding |-> <<s.started_on>>]

\* __init__: load when faiss.index exists, else an empty index seeded with
\* the starter knowledge.  `path` records the branch taken, `seeding` the
\* corpus sizes at each entry into _initialize_medical_knowledge, `saved`
\* whether the seeding's save wrote both files.
init(ifile, dfile, failAt, fault, saveFault) ==
  IF ifile.kind # "absent"
  THEN LET l == load(ifile, dfile)
       IN  [index |-> l.index, documents |-> l.documents,
            index_file |-> ifile, data_file |-> dfile, raised |-> l.raised,
            saved |-> FALSE,
            path |-> IF l.ok THEN "loaded" ELSE "load_failed",
            seeding |-> <<>>]
  ELSE LET s == initialize_medical_knowledge(IndexFlatL2(dimension), <<>>,
                  ifile, dfile, failAt, fault, saveFault)
       IN  [index |-> s.index, documents |-> s.documents,
            index_file |-> s.index_file, data_file |-> s.data_file,
            raised |-> s.raised, saved |-> s.saved, path |-> "seeded",
            seeding |-> <<s.started_on>>]

\* ------------------------------------------------------------------ state

VARIABLES
  phase,        \* "down": no service object; "ready": __init__ has returned
  index,        \* self.index
  documents,    \* self.documents
  index_file,   \* the file self.index_file names
  data_file,    \* the file self.data_file names
  lib,          \* the faiss build: its order of equal distances in search
  adds,         \* add_document calls made so far by callers
  lastOp,       \* the last completed call: method, arguments, fault, outcome
  result,       \* what the last call returned (search, get_relevant_knowledge)
  pre,          \* corpus and files as they were when the last call started
  prevSaveOk,   \* the call before the last one was a save that wrote both files
  prevAdd,      \* the call before the last one, when it was an add_document
                \* that returned normally: its arguments; else None
  seeding,      \* corpus sizes at which the last call entered the seeding
  lastSave,     \* the corpus of the last save that wrote both files, while
                \* the files are still that pair; documents added since
  writer,       \* a thread inside add_document: its position and locals
  reader,       \* a thread inside search: its position and locals
  wait          \* a call of wait_for_neo4j: its position and locals

vars ==
  <<phase, index, documents, index_file, data_file, lib, adds, lastOp, result,
    pre, prevSaveOk, prevAdd, seeding, lastSave, writer, reader, wait>>

\* What each specification leaves alone.
threadVars == <<writer, reader>>
serviceHistory == <<adds, lastOp, pre, prevSaveOk, prevAdd, seeding, lastSave>>

Snapshot ==
  [index |-> index, documents |-> documents, index_file |-> index_file,
   data_file |-> data_file]

Op(name, fault, raised, outcome, text, metadata, k) ==
  [op |-> name, fault |-> fault, raised |-> raised, outcome |-> outcome,
   text |-> text, metadata |-> metadata, k |-> k]

\* Whether the last completed call was a save that wrote both files.
SaveOk == lastOp.op = "save" /\ lastOp.outcome = "ok"

\* The arguments of the last completed call when it was an add_document that
\* returned normally.
AddOk ==
  IF lastOp.op = "add_document" /\ ~lastOp.raised
  THEN [text |-> lastOp.text, metadata |-> lastOp.metadata]
  ELSE None

Builds == [ties : {"first", "last"}]

NoSave ==
  [valid |-> FALSE, index |-> IndexFlatL2(dimension), documents |-> <<>>,
   unsaved |-> 0]

\* lastSave after a call that left the files as (ifile, dfile); `wrote` says
\* a save inside it wrote both files, of the corpus (ix, docs).
SaveRecorded(wrote, ix, docs, ifile, dfile) ==
  IF wrote
  THEN [valid |-> TRUE, index |-> ix, documents |-> docs, unsaved |-> 0]
  ELSE IF ifile = index_file /\ dfile = data_file THEN lastSave
  ELSE NoSave

\* No thread is inside add_document, none inside search.
NoWriter == [pc |-> "idle", text |-> 0, metadata |-> None, embedding |-> <<>>]
NoReader ==
  [pc |-> "idle", query |-> 0, k |-> 0, query_embedding |-> <<>>,
   hits |-> <<>>, raised |-> FALSE]

\* wait_for_neo4j has not been called.
NoWait ==
  [pc |-> "idle", max_attempts |-> 0, attempt |-> 0, outcomes |-> <<>>,
   slept |-> <<>>, returned |-> "nothing"]

Init ==
  /\ phase = "down"
  /\ index = IndexFlatL2(dimension)
  /\ documents = <<>>
  /\ index_file = NoIndexFile
  /\ data_file = NoDataFile
  /\ lib \in Builds
  /\ adds = 0
  /\ lastOp = Op("none", "none", FALSE, "none", 0, None, 0)
  /\ result = <<>>
  /\ pre = Snapshot
  /\ prevSaveOk = FALSE
  /\ prevAdd = None
  /\ seeding = <<>>
  /\ lastSave = NoSave
  /\ writer = NoWriter
  /\ reader = NoReader
  /\ wait = NoWait

\* The state __init__ leaves, r being what it computed.
Constructed(r) ==
  /\ phase' = IF r.raised THEN "down" ELSE "ready"
  /\ index' = IF r.raised THEN IndexFlatL2(dimension) ELSE r.index
  /\ documents' = IF r.raised THEN <<>> ELSE r.documents
  /\ index_file' = r.index_file
  /\ data_file' = r.data_file
  /\ lastOp' = Op("construct", "none", r.raised, r.path, 0, None, 0)
  /\ seeding' = r.seeding
  /\ lastSave' = SaveRecorded(r.saved, r.index, r.documents, r.index_file,
                              r.data_file)

\* VectorDBService(db_path).  An exception leaves the caller without a
\* service object.
Construct ==
  /\ phase = "down"
  /\ \E fault \in AddFaults :
     \E failAt \in (IF fault = "none" THEN {1} ELSE SeedFailPoints),
        saveFault \in (IF fault = "none" THEN SaveFaults ELSE {"none"}) :
       Constructed(init(index_file, data_file, failAt, fault, saveFault))
  /\ result' = <<>>
  /\ pre' = Snapshot
  /\ prevSaveOk' = SaveOk
  /\ prevAdd' = AddOk
  /\ UNCHANGED <<lib, adds, threadVars, wait>>

Added(r, call, fault) ==
  /\ index' = r.index
  /\ documents' = r.documents
  /\ lastOp' = Op("add_document", fault, r.raised,
                  IF r.raised THEN "raised" ELSE "ok",
                  call.text, call.metadata, 0)
  /\ lastSave' = IF lastSave.valid /\ ~r.raised
                 THEN [lastSave EXCEPT !.unsaved = @ + 1]
                 ELSE lastSave

AddDocument ==
  /\ phase = "ready"
  /\ adds < MaxAdds
  /\ \E call \in AddCalls, fault \in AddFaults :
       Added(add_document(index, documents, call.text, call.metadata, fault),
             call, fault)
  /\ adds' = adds + 1
  /\ result' = <<>>
  /\ pre' = Snapshot
  /\ prevSaveOk' = SaveOk
  /\ prevAdd' = AddOk
  /\ seeding' = <<>>
  /\ UNCHANGED <<phase, index_file, data_file, lib, threadVars, wait>>

Returned(name, r, query, k, fault) ==
  /\ result' = r.results
  /\ lastOp' = Op(name, fault, r.raised, IF r.raised THEN "raised" ELSE "ok",
                  query, None, k)

Search ==
  /\ phase = "ready"
  /\ \E query \in QueryTexts, k \in KArgs :
     \E fault \in SearchFaults(k), assert_k \in AssertsK(k) :
       Returned("search",
                search(index, documents, query, k, fault, assert_k, lib.ties),
                query, k, fault)
  /\ pre' = Snapshot
  /\ prevSaveOk' = SaveOk
  /\ prevAdd' = AddOk
  /\ seeding' = <<>>
  /\ UNCHANGED <<phase, index, documents, index_file, data_file, lib, adds,
                 lastSave, threadVars, wait>>

GetRelevantKnowledge ==
  /\ phase = "ready"
  /\ \E symptoms \in QueryTexts, k \in KnowledgeKArgs :
     \E fault \in SearchFaults(k), assert_k \in AssertsK(k) :
       Returned("get_relevant_knowledge",
                get_relevant_knowledge(index, documents, symptoms, k, fault,
                                       assert_k, lib.ties),
                symptoms, k, fault)
  /\ pre' = Snapshot
  /\ prevSaveOk' = SaveOk
  /\ prevAdd' = AddOk
  /\ seeding' = <<>>
  /\ UNCHANGED <<phase, index, documents, index_file, data_file, lib, adds,
                 lastSave, threadVars, wait>>

Saved(r, fault) ==
  /\ index_file' = r.index_file
  /\ data_file' = r.data_file
  /\ lastOp' = Op("save", fault, r.raised, IF r.ok THEN "ok" ELSE "failed",
                  0, None, 0)
  /\ lastSave' = SaveRecorded(r.ok, index, documents, r.index_file,
                              r.data_file)

Save ==
  /\ phase = "ready"
  /\ \E fault \in SaveFaults :
       Saved(save(index, documents, index_file, data_file, fault), fault)
  /\ result' = <<>>
  /\ pre' = Snapshot
  /\ prevSaveOk' = SaveOk
  /\ prevAdd' = AddOk
  /\ seeding' = <<>>
  /\ UNCHANGED <<phase, index, documents, lib, adds, threadVars, wait>>

Loaded(r) ==
  /\ index' = r.index
  /\ documents' = r.documents
  /\ lastOp' = Op("load", "none", r.raised, IF r.ok THEN "ok" ELSE "failed",
                  0, None, 0)

Load ==
  /\ phase = "ready"
  /\ Loaded(load(index_file, data_file))
  /\ result' = <<>>
  /\ pre' = Snapshot
  /\ prevSaveOk' = SaveOk
  /\ prevAdd' = AddOk
  /\ seeding' = <<>>
  /\ UNCHANGED <<phase, index_file, data_file, lib, adds, lastSave,
                 threadVars, wait>>

\* Process exit: the in-memory corpus is discarded.
Exit ==
  /\ phase = "ready"
  /\ phase' = "down"
  /\ index' = IndexFlatL2(dimension)
  /\ documents' = <<>>
  /\ lastOp' = Op("exit", "none", FALSE, "none", 0, None, 0)
  /\ result' = <<>>
  /\ pre' = Snapshot
  /\ prevSaveOk' = SaveOk
  /\ prevAdd' = AddOk
  /\ seeding' = <<>>
  /\ UNCHANGED <<index_file, data_file, lib, adds, lastSave, threadVars,
                 wait>>

\* The environment damages or removes an artifact while no service runs.
Damage(ifile, dfile) ==
  /\ phase = "down"
  /\ index_file' = ifile
  /\ data_file' = dfile
  /\ lastOp' = Op("damage", "none", FALSE, "none", 0, None, 0)
  /\ result' = <<>>
  /\ pre' = Snapshot
  /\ prevSaveOk' = SaveOk
  /\ prevAdd' = AddOk
  /\ seeding' = <<>>
  /\ lastSave' = NoSave
  /\ UNCHANGED <<phase, index, documents, lib, adds, threadVars, wait>>

CorruptIndexFile ==
  /\ index_file.kind = "ok"
  /\ Damage(BadIndexFile, data_file)

CorruptDataFile ==
  /\ data_file.kind = "ok"
  /\ Damage(index_file, BadDataFile)

DeleteIndexFile ==
  /\ index_file.kind # "absent"
  /\ Damage(NoIndexFile, data_file)

DeleteDataFile ==
  /\ data_file.kind # "absent"
  /\ Damage(index_file, NoDataFile)

Next ==
  \/ Construct
  \/ AddDocument
  \/ Search
  \/ GetRelevantKnowledge
  \/ Save
  \/ Load
  \/ Exit
  \/ CorruptIndexFile
  \/ CorruptDataFile
  \/ DeleteIndexFile
  \/ DeleteDataFile

Spec == Init /\ [][Next]_vars

\* ---------------------------------------------------------------- threads
\* One thread inside add_document and one inside search on the same service
\* object, each statement of the two methods a step of its own: the methods
\* take no lock, so the statements of the two threads interleave freely.

ThreadKArgs == {k \in KArgs : k >= 1}

\* A newly constructed service on an empty directory: seeded and saved.
Seeded == init(NoIndexFile, NoDataFile, 1, "none", "none")

ServiceStarted(r) ==
  /\ phase = "ready"
  /\ index = r.index
  /\ documents = r.documents
  /\ index_file = r.index_file
  /\ data_file = r.data_file
  /\ lastOp = Op("construct", "none", r.raised, r.path, 0, None, 0)
  /\ seeding = r.seeding
  /\ lastSave = [valid |-> r.saved, index |-> r.index,
                 documents |-> r.documents, unsaved |-> 0]

InitThreads ==
  /\ ServiceStarted(Seeded)
  /\ lib \in Builds
  /\ adds = 0
  /\ result = <<>>
  /\ pre = Snapshot
  /\ prevSaveOk = FALSE
  /\ prevAdd = None
  /\ writer = NoWriter
  /\ reader = NoReader
  /\ wait = NoWait

\* add_document, line 106: embedding = self.model.encode(text).  pre keeps
\* the corpus the call started on.
WriterEncode ==
  /\ writer.pc = "idle"
  /\ adds < MaxAdds
  /\ \E call \in AddCalls :
       writer' = [pc |-> "encoded", text |-> call.text,
                  metadata |-> call.metadata, embedding |-> encode(call.text)]
  /\ adds' = adds + 1
  /\ pre' = Snapshot
  /\ UNCHANGED <<phase, index, documents, index_file, data_file, lib, lastOp,
                 result, prevSaveOk, prevAdd, seeding, lastSave, reader, wait>>

\* add_document, line 109: self.index.add(...).
WriterIndexAdd ==
  /\ writer.pc = "encoded"
  /\ index' = IndexAdd(index, writer.embedding)
  /\ writer' = [writer EXCEPT !.pc = "indexed"]
  /\ UNCHANGED <<phase, documents, index_file, data_file, lib, adds, lastOp,
                 result, pre, prevSaveOk, prevAdd, seeding, lastSave, reader,
                 wait>>

\* add_document, lines 112-115: self.documents.append(...); the call returns.
WriterAppend ==
  /\ writer.pc = "indexed"
  /\ documents' = DocumentsAppend(documents, writer.text, writer.metadata)
  /\ writer' = [writer EXCEPT !.pc = "returned"]
  /\ UNCHANGED <<phase, index, index_file, data_file, lib, adds, lastOp,
                 result, pre, prevSaveOk, prevAdd, seeding, lastSave, reader,
                 wait>>

\* search, lines 128-129: if self.index.ntotal == 0: return [].
ReaderCheck ==
  /\ reader.pc = "idle"
  /\ \E query \in QueryTexts, k \in ThreadKArgs :
       reader' = [reader EXCEPT
                    !.pc = IF ntotal(index) = 0 THEN "returned" ELSE "checked",
                    !.query = query, !.k = k]
  /\ UNCHANGED <<phase, index, documents, index_file, data_file, lib, adds,
                 lastOp, result, pre, prevSaveOk, prevAdd, seeding, lastSave,
                 writer, wait>>

\* search, line 132: query_embedding = self.model.encode(query).
ReaderEncode ==
  /\ reader.pc = "checked"
  /\ reader' = [reader EXCEPT !.pc = "encoded",
                              !.query_embedding = encode(reader.query)]
  /\ UNCHANGED <<phase, index, documents, index_file, data_file, lib, adds,
                 lastOp, result, pre, prevSaveOk, prevAdd, seeding, lastSave,
                 writer, wait>>

\* search, lines 135-138: self.index.search(..., min(k, self.index.ntotal)).
ReaderIndexSearch ==
  /\ reader.pc = "encoded"
  /\ reader' = [reader EXCEPT
                  !.pc = "searched",
                  !.hits = IndexSearch(index, reader.query_embedding,
                                       Min(reader.k, ntotal(index)), lib.ties)]
  /\ UNCHANGED <<phase, index, documents, index_file, data_file, lib, adds,
                 lastOp, result, pre, prevSaveOk, prevAdd, seeding, lastSave,
                 writer, wait>>

\* search, lines 141-146: the loop over the hits; the call returns.
ReaderResolve ==
  /\ reader.pc = "searched"
  /\ result' = Resolve(documents, reader.hits)
  /\ reader' = [reader EXCEPT !.pc = "returned"]
  /\ UNCHANGED <<phase, index, documents, index_file, data_file, lib, adds,
                 lastOp, pre, prevSaveOk, prevAdd, seeding, lastSave, writer,
                 wait>>

NextThreads ==
  \/ WriterEncode
  \/ WriterIndexAdd
  \/ WriterAppend
  \/ ReaderCheck
  \/ ReaderEncode
  \/ ReaderIndexSearch
  \/ ReaderResolve

SpecThreads == InitThreads /\ [][NextThreads]_vars

\* ---------------------------------------------------------- wait_for_neo4j
\* setup_neo4j.wait_for_neo4j(max_attempts, password): the for loop over
\* range(max_attempts), one connection attempt per iteration.

MaxAttemptsBound == 4

MaxAttemptsArgs == 0 .. MaxAttemptsBound

\* What one iteration's try block does: GraphDBService(...) raises; it
\* returns a service whose driver is falsy; the driver is there and the
\* probe query raises; the probe query succeeds.
ConnectOutcomes == {"raised", "no_driver", "probe_failed", "ready"}

\* The call returns `value` after the attempt whose outcome is o, having
\* slept after it or not.
Attempted(o, sleeps, pc, value) ==
  wait' = [wait EXCEPT !.pc = pc,
                       !.outcomes = Append(@, o),
                       !.slept = Append(@, sleeps),
                       !.returned = value]

\* wait_for_neo4j(max_attempts=m): with range(m) empty the loop body never
\* runs and the function returns None.
CallWait ==
  /\ wait.pc = "idle"
  /\ \E m \in MaxAttemptsArgs :
       wait' = [wait EXCEPT !.pc = IF m > 0 THEN "try" ELSE "returned",
                            !.max_attempts = m,
                            !.returned = IF m > 0 THEN "nothing" ELSE "None"]
  /\ UNCHANGED <<phase, index, documents, index_file, data_file, lib,
                 result, serviceHistory, threadVars>>

\* One iteration up to its return, its sleep, or the end of its body.
Attempt ==
  /\ wait.pc = "try"
  /\ \E o \in ConnectOutcomes :
       IF o = "ready"
       THEN Attempted(o, FALSE, "returned", "service")
       ELSE IF o = "no_driver"
       THEN IF wait.attempt + 1 < wait.max_attempts
            THEN Attempted(o, FALSE, "next", "nothing")
            ELSE Attempted(o, FALSE, "returned", "None")
       ELSE IF wait.attempt < wait.max_attempts - 1
            THEN Attempted(o, TRUE, "sleeping", "nothing")
            ELSE Attempted(o, FALSE, "returned", "None")
  /\ UNCHANGED <<phase, index, documents, index_file, data_file, lib,
                 result, serviceHistory, threadVars>>

\* The for statement takes the next attempt number, after time.sleep(2)
\* has returned or directly after an iteration that fell through.
NextAttempt ==
  /\ wait.pc \in {"sleeping", "next"}
  /\ wait' = [wait EXCEPT !.pc = "try", !.attempt = @ + 1]
  /\ UNCHANGED <<phase, index, documents, index_file, data_file, lib,
                 result, serviceHistory, threadVars>>

NextWait ==
  \/ CallWait
  \/ Attempt
  \/ NextAttempt

SpecWait == Init /\ [][NextWait]_vars

\* ----------------------------------------------------------------- claims

\* The documents the seeding stores: each starter entry is its own metadata.
StarterDocuments ==
  [i \in 1 .. Len(medical_knowledge) |->
     [text |-> medical_knowledge[i].text, metadata |-> medical_knowledge[i]]]

\* An artifact was missing or unreadable when the last call started.
ArtifactsDamaged == pre.index_file.kind # "ok" \/ pre.data_file.kind # "ok"

\* C1: after every completed public operation of a constructed service the
\* index holds as many vectors as the documents list holds entries.
C1_CountsEqual == phase = "ready" => ntotal(index) = Len(documents)

\* C2: when the embedding call inside add_document fails, the call raises to
\* its caller and the index and the documents list are what they were before.
C2_EmbedFailureMutatesNothing ==
  (lastOp.op = "add_document" /\ lastOp.fault = "embed")
    => /\ lastOp.raised
       /\ index = pre.index
       /\ documents = pre.documents

C2_Witness ==
  /\ lastOp.op = "add_document"
  /\ lastOp.fault = "embed"
  /\ lastOp.raised
  /\ Len(documents) > 0

\* C3: when the embedding succeeds and the index append or the documents
\* append of add_document fails, the index and the documents list are rolled
\* back to what they were before the call.
C3_AppendFailureRollsBack ==
  (lastOp.op = "add_document" /\ lastOp.fault \in {"index", "store"})
    => /\ index = pre.index
       /\ documents = pre.documents

\* C4: a save that fails leaves on disk no readable pair of artifacts other
\* than the pair that was there before it or the complete pair of the
\* current corpus.
C4_FailedSaveLeavesCompletePair ==
  (/\ lastOp.op = "save"
   /\ lastOp.outcome = "failed"
   /\ index_file.kind = "ok"
   /\ data_file.kind = "ok")
    => \/ /\ index_file = pre.index_file
          /\ data_file = pre.data_file
       \/ /\ index_file = write_index(index)
          /\ data_file = pickle_dump(documents)

SameSearches(ix1, docs1, ix2, docs2) ==
  \A q \in QueryTexts, k \in KArgs, a \in BOOLEAN :
    search(ix1, docs1, q, k, "none", a, lib.ties)
      = search(ix2, docs2, q, k, "none", a, lib.ties)

\* C5: a load that directly follows a successful save gives back the same
\* ordered corpus (embeddings, texts and metadata at the same positions), and
\* every search returns after the load what it returned before the save.
C5_SaveLoadRoundTrip ==
  (lastOp.op = "load" /\ prevSaveOk)
    => /\ index = pre.index
       /\ documents = pre.documents
       /\ SameSearches(pre.index, pre.documents, index, documents)

C5_Witness ==
  /\ lastOp.op = "load"
  /\ prevSaveOk
  /\ lastOp.outcome = "ok"
  /\ Len(documents) > Len(medical_knowledge)
  /\ ntotal(index) = Len(documents)

\* C6: a completed construction has either loaded the persisted corpus or
\* seeded the starter set, and when an artifact was corrupt or missing at
\* startup the corpus holds exactly the 10 starter documents.
C6_ConstructionLoadsOrSeeds ==
  (lastOp.op = "construct" /\ ~lastOp.raised)
    => /\ lastOp.outcome \in {"loaded", "seeded"}
       /\ ArtifactsDamaged
            => /\ documents = StarterDocuments
               /\ Len(documents) = 10
               /\ ntotal(index) = 10

\* C7: load never raises, and when either artifact is missing or unreadable
\* it leaves both the index and the documents list empty.
C7_LoadFallsBackToEmpty ==
  /\ lastOp.op = "load"
       => /\ ~lastOp.raised
          /\ ArtifactsDamaged
               => /\ index = IndexFlatL2(dimension)
                  /\ documents = <<>>
  /\ (lastOp.op = "construct" /\ lastOp.outcome = "load_failed")
       => /\ ~lastOp.raised
          /\ index = IndexFlatL2(dimension)
          /\ documents = <<>>

C7_Witness ==
  /\ lastOp.op = "load"
  /\ pre.index_file.kind = "ok"
  /\ pre.index_file.ntotal > 0
  /\ pre.data_file.kind # "ok"
  /\ ntotal(pre.index) > 0
  /\ ntotal(index) = 0
  /\ documents = <<>>

\* C8: search with k <= 0, or on an empty corpus with any k, returns the
\* empty sequence and does not raise.
C8_SearchEmptyNeverRaises ==
  (/\ lastOp.op = "search"
   /\ lastOp.fault = "none"
   /\ (lastOp.k <= 0 \/ ntotal(pre.index) = 0))
    => /\ ~lastOp.raised
       /\ result = <<>>

\* What C9 asks of the results `res` of a search for q with k >= 1 on a
\* corpus of n vectors, hits being the positions the index ranks nearest.
SearchResultsRight(res, hits, q, k, n) ==
  /\ Len(res) = Min(k, n)
  /\ \A i \in 1 .. (Len(res) - 1) : res[i][2] <= res[i + 1][2]
  /\ \A i \in 1 .. Len(res) :
       /\ hits[i].idx < Len(documents)
       /\ res[i][1] = documents[hits[i].idx + 1]
       /\ res[i][2] = L2sqr(encode(q), index.xb[hits[i].idx + 1])
  /\ k >= n => {hits[i].idx : i \in 1 .. Len(res)} = 0 .. (n - 1)

\* C9: for k >= 1 search returns exactly min(k, corpus size) pairs, in
\* non-decreasing distance, each distance the squared Euclidean distance from
\* the query to the embedding at the document's position, and the whole
\* corpus once when k >= corpus size.
C9_SearchReturnsNearest ==
  (lastOp.op = "search" /\ ~lastOp.raised /\ lastOp.k >= 1)
    => SearchResultsRight(result,
         IndexSearch(index, encode(lastOp.text),
                     Min(lastOp.k, ntotal(index)), lib.ties),
         lastOp.text, lastOp.k, ntotal(index))

\* Every position that held an (embedding, document) pair when the last call
\* started holds the same pair now, and neither collection is shorter.
PairsKept ==
  /\ Len(index.xb) >= Len(pre.index.xb)
  /\ Len(documents) >= Len(pre.documents)
  /\ \A i \in 1 .. Min(Len(pre.index.xb), Len(pre.documents)) :
       /\ index.xb[i] = pre.index.xb[i]
       /\ documents[i] = pre.documents[i]

\* C10 as claimed: every call on a constructed service, load included,
\* keeps every stored pair at its position and never shrinks the corpus.
C10_AppendOnlyWithLoad ==
  lastOp.op \in {"add_document", "search", "get_relevant_knowledge", "save",
                 "load"}
    => PairsKept

\* C10 as amended: add_document, search, get_relevant_knowledge and save
\* keep every stored pair at its position and never shrink the corpus (load
\* replaces the corpus by the persisted one).
C10_AppendOnlyWithoutLoad ==
  lastOp.op \in {"add_document", "search", "get_relevant_knowledge", "save"}
    => PairsKept

C10_Witness ==
  /\ lastOp.op = "add_document"
  /\ ~lastOp.raised
  /\ Len(pre.documents) >= Len(medical_knowledge)
  /\ Len(documents) = Len(pre.documents) + 1
  /\ ntotal(index) = ntotal(pre.index) + 1

\* C11: save never raises and never changes the in-memory corpus: whether it
\* wrote both files or failed, the index and the documents list are what they
\* were before it and the service is still there for add_document and search.
C11_SaveKeepsCorpusAndNeverRaises ==
  lastOp.op = "save"
    => /\ ~lastOp.raised
       /\ index = pre.index
       /\ documents = pre.documents
       /\ phase = "ready"

C11_Witness ==
  /\ lastOp.op = "save"
  /\ lastOp.outcome = "failed"
  /\ lastOp.fault = "data_dump"
  /\ ~lastOp.raised
  /\ Len(documents) > Len(medical_knowledge)
  /\ documents = pre.documents

\* C12: the seeding runs only on an empty corpus and at most once per
\* constructed service: no call other than the construction enters
\* _initialize_medical_knowledge, the construction enters it at most once,
\* and both the index and the documents list are empty when it is entered.
C12_SeedsOnlyEmptyCorpusOnce ==
  /\ Len(seeding) <= 1
  /\ Len(seeding) > 0 => lastOp.op = "construct" /\ lastOp.outcome = "seeded"
  /\ \A i \in 1 .. Len(seeding) :
       /\ seeding[i].ntotal = 0
       /\ seeding[i].documents = 0

C12_Witness ==
  /\ lastOp.op = "construct"
  /\ ~lastOp.raised
  /\ Len(seeding) = 1
  /\ pre.data_file.kind = "ok"
  /\ Len(pickle_load(pre.data_file)) > Len(medical_knowledge)
  /\ documents = StarterDocuments

\* The document add_document(text, metadata) stores.
Stored(call) == [text |-> call.text, metadata |-> OrEmpty(call.metadata)]

\* The last call was a search with k >= 1 for the text the call before it
\* added, and no position before the new one holds an equal embedding.
SearchedJustAdded ==
  /\ lastOp.op = "search"
  /\ lastOp.fault = "none"
  /\ lastOp.k >= 1
  /\ prevAdd # None
  /\ lastOp.text = prevAdd.text
  /\ \A i \in 1 .. (ntotal(index) - 1) : index.xb[i] # encode(lastOp.text)

\* C13: a search with k >= 1 for the text that the call before it added
\* returns the just-added document, text and metadata, as its first result,
\* at the least distance any stored embedding has from the query, whatever
\* the corpus held before the add.  Stated for the corpora in which the new
\* embedding has no equal at an earlier position (with one, the index's order
\* of equal distances decides which of the two documents comes first).
C13_SearchReturnsJustAddedFirst ==
  SearchedJustAdded
    => /\ ~lastOp.raised
       /\ Len(result) >= 1
       /\ result[1][1] = Stored(prevAdd)
       /\ \A i \in 1 .. ntotal(index) :
            result[1][2] <= L2sqr(encode(lastOp.text), index.xb[i])

\* The first position of the documents list that holds document doc.
PositionOf(doc) ==
  CHOOSE i \in 1 .. Len(documents) :
    /\ documents[i] = doc
    /\ \A j \in 1 .. (i - 1) : documents[j] # doc

\* C14: when two stored embeddings are at equal distance from the query,
\* search returns them in ascending insertion position, the first-inserted
\* entry first.
C14_TiesInInsertionOrder ==
  (lastOp.op = "search" /\ ~lastOp.raised)
    => \A i \in 1 .. (Len(result) - 1) :
         result[i][2] = result[i + 1][2]
           => PositionOf(result[i][1]) <= PositionOf(result[i + 1][1])

\* The index ix with every vector one component longer: an index whose
\* dimensionality differs from the length of the embeddings encode returns.
Widened(ix) ==
  [d |-> ix.d + 1, xb |-> [i \in 1 .. ntotal(ix) |-> Append(ix.xb[i], 0)]]

\* r is a failed call that left the corpus (ix, docs) as it was.
Rejected(r, ix, docs) == r.raised /\ r.index = ix /\ r.documents = docs

\* C15: in every state the dimensionality of the index, of every stored
\* embedding and of a readable index artifact is self.dimension, after a load
\* too; and an add_document whose embedding length differs from the
\* dimensionality of the index fails and leaves index and documents unchanged.
C15_DimensionFixed ==
  /\ index.d = dimension
  /\ \A i \in 1 .. ntotal(index) : Len(index.xb[i]) = dimension
  /\ index_file.kind = "ok" => index_file.d = dimension
  /\ \A call \in AddCalls :
       Rejected(add_document(Widened(index), documents, call.text,
                             call.metadata, "none"),
                Widened(index), documents)

C15_Witness ==
  /\ lastOp.op = "load"
  /\ lastOp.outcome = "ok"
  /\ ntotal(index) > Len(medical_knowledge)
  /\ index.d = dimension
  /\ Len(index.xb[ntotal(index)]) = dimension

\* Some position among hits is not assigned in the documents list docs.
SomeUnassigned(hits, docs) ==
  \E i \in 1 .. Len(hits) : hits[i].idx >= Len(docs)

\* C16: a search in which the index returns a position that the documents
\* list does not hold fails with an error reported to the caller; it does
\* not drop the position and return a shorter result.
C16_UnassignedPositionRaises ==
  (/\ lastOp.op = "search"
   /\ lastOp.fault = "none"
   /\ lastOp.k >= 1
   /\ SomeUnassigned(IndexSearch(index, encode(lastOp.text),
                                 Min(lastOp.k, ntotal(index)), lib.ties),
                     documents))
    => lastOp.raised

\* What a search that ran alone on the corpus (ix, docs) would have returned
\* for the reader's query and k.
SearchAlone(ix, docs) ==
  search(ix, docs, reader.query, reader.k, "none", TRUE, lib.ties).results

AfterAdd(r) == SearchAlone(r.index, r.documents)

\* C17: a search interleaved with an add_document of another thread sees the
\* corpus entirely before or entirely after the add: what it returns is what
\* a search alone returns on the corpus the add started on, or on that
\* corpus with the new vector and the new document both appended.
C17_SearchSeesBeforeOrAfter ==
  reader.pc = "returned"
    => IF writer.pc = "idle"
       THEN result = SearchAlone(index, documents)
       ELSE \/ result = SearchAlone(pre.index, pre.documents)
            \/ result = AfterAdd(add_document(pre.index, pre.documents,
                                              writer.text, writer.metadata,
                                              "none"))

Unsuccessful == {i \in 1 .. Len(wait.outcomes) : wait.outcomes[i] # "ready"}

\* C19: wait_for_neo4j returns after at most max_attempts attempts; it
\* returns a service only from an attempt that got a driver and whose probe
\* query succeeded, None when no attempt succeeded; and it has slept after
\* every unsuccessful attempt except the max_attempts-th.
C19_WaitsBetweenAttempts ==
  wait.pc = "returned"
    => /\ Len(wait.outcomes) <= wait.max_attempts
       /\ wait.returned = "service"
            <=> (/\ Len(wait.outcomes) > 0
                 /\ wait.outcomes[Len(wait.outcomes)] = "ready")
       /\ wait.returned = "None"
            <=> Unsuccessful = 1 .. Len(wait.outcomes)
       /\ \A i \in Unsuccessful : i < wait.max_attempts => wait.slept[i]

====
